---- MODULE Spec2Model ----
(***************************************************************************)
(* SimpleClientSideCache (src/src/simple-cache.js): a forward map          *)
(* cacheKey -> value, a reverse index redisKey -> set of cacheKeys, the    *)
(* asynchronous read-through handleCache and the synchronous invalidate /  *)
(* clear / onError / onClose, driven by a Redis server that tracks the     *)
(* keys this connection has read and pushes invalidation signals.          *)
(***************************************************************************)
EXTENDS Integers, Sequences, FiniteSets, TLC

VARIABLES
    cache,           \* this.cache: cacheKey -> stored value
    keyToCacheKeys,  \* this.keyToCacheKeys: redis key string -> set of cacheKeys
    enableStat,      \* options.enableStat, fixed at construction
    options,         \* the other options passed to the constructor
    instance,        \* what the constructor built: the maps' classes, the error thrown
    writeBudget,     \* number of writes the server executes in this run
    stats,           \* this._stats (all zero and never written when disabled)
    events,          \* payloads of the 'invalidate' events emitted so far
    calls,           \* the handleCache invocations in flight: position, arguments
    last,            \* the handleCache invocation that settled in the last step
    nStarted,        \* number of handleCache invocations made so far
    store,           \* the Redis server's data: key name -> version (0 = no value)
    tracked,         \* the server's tracking table for this connection
    signals,         \* invalidation pushes sent by the server, not yet delivered
    processed,       \* arguments of the invalidate() calls made so far
    nWrites,         \* number of writes the server has executed
    srcKeys,         \* for each cached cacheKey, parser.keys of the read that stored it
    run,             \* per cacheKey: how the first read since the last invalidate / clear settled
    racy,            \* cached cacheKeys stored by a read that an invalidation overtook
    keygen,          \* two argument lists and the cacheKeys generateCacheKey gave them
    twin             \* a second cache, built with enableStat false, given the same calls

vars == <<cache, keyToCacheKeys, enableStat, options, instance, writeBudget, stats, events, calls, last, nStarted,
          store, tracked, signals, processed, nWrites, srcKeys, run, racy, keygen,
          twin>>

\* What no method of the cache writes: what construction fixes for the whole
\* run, and the results of calling generateCacheKey on its own.
config == <<enableStat, options, instance, writeBudget, keygen>>

----------------------------------------------------------------------------
(* Bounds of the model *)

MaxReads == 2

MaxWrites == 1

MaxArgs == 2

----------------------------------------------------------------------------
(* JavaScript values *)

\* A redis key or command argument as JavaScript holds it: a string with the
\* characters s, or a Buffer with the bytes b (Buf(s): the one byte named s).
Str(s) == [t |-> "string", s |-> s, b |-> <<>>]

Bytes(bs) == [t |-> "Buffer", s |-> "", b |-> bs]

Buf(s) == Bytes(<<s>>)

Null == [t |-> "null", s |-> "", b |-> <<>>]

Digit(n) == CASE n = 0 -> "0" [] n = 1 -> "1" [] n = 2 -> "2" [] n = 3 -> "3"
              [] n = 4 -> "4" [] n = 5 -> "5" [] n = 6 -> "6" [] n = 7 -> "7"
              [] n = 8 -> "8" [] n = 9 -> "9"

\* Number -> string, as Array.prototype.join renders an element.
RECURSIVE NumToString(_)
NumToString(n) == IF n < 10 THEN Digit(n)
                  ELSE NumToString(n \div 10) \o Digit(n % 10)

\* Array.prototype.join(sep) over an array of strings.
RECURSIVE Join(_, _)
Join(arr, sep) == IF Len(arr) = 0 THEN ""
                  ELSE IF Len(arr) = 1 THEN arr[1]
                  ELSE arr[1] \o sep \o Join(Tail(arr), sep)

\* Bytes that are no UTF-8 sequence, and the character U+FFFD that decoding
\* puts in their place; an ASCII byte decodes to its character.
InvalidBytes == {"0xFE", "0xFF"}

Replacement == "U+FFFD"

utf8(byte) == IF byte \in InvalidBytes THEN Replacement ELSE byte

\* x.toString(): a string is itself, a Buffer is its bytes decoded as UTF-8.
toString(x) ==
    IF x.t = "Buffer" THEN Join([i \in DOMAIN x.b |-> utf8(x.b[i])], "") ELSE x.s

\* x.length: UTF-16 units of a string, bytes of a Buffer.
length(x) == IF x.t = "Buffer" THEN Len(x.b) ELSE Len(x.s)

KeyNames == {"a", "b"}

\* The read commands the client issues: parser.redisArgs, parser.keys and the
\* command's transformReply (absent, or a function that returns).
Commands ==
    { [redisArgs |-> <<Str("GET"), Str("a")>>, keys |-> <<Str("a")>>,
       transformReply |-> "none"],
      [redisArgs |-> <<Str("GET"), Str("b")>>, keys |-> <<Str("b")>>,
       transformReply |-> "none"],
      [redisArgs |-> <<Str("MGET"), Str("a"), Str("b")>>, keys |-> <<Str("a"), Str("b")>>,
       transformReply |-> "ok"] }

\* Reads at the edge of the interface: one whose parser.keys is empty, one
\* whose transformReply throws, next to an ordinary one.
EdgeCommands ==
    { [redisArgs |-> <<Str("MGET"), Str("a"), Str("b")>>, keys |-> <<Str("a"), Str("b")>>,
       transformReply |-> "ok"],
      [redisArgs |-> <<Str("DBSIZE")>>, keys |-> <<>>, transformReply |-> "none"],
      [redisArgs |-> <<Str("HGETALL"), Str("b")>>, keys |-> <<Str("b")>>,
       transformReply |-> "throws"] }

AllCommands == Commands \cup EdgeCommands

\* Errors the remote function can reject with.
Errors == {"ECONNRESET", "ETIMEDOUT"}

\* process.hrtime differences, in ms: a duration other than 1, so that the
\* time added differs from a count of loads.
Elapsed == {2}

Range(f) == {f[i] : i \in DOMAIN f}

----------------------------------------------------------------------------
(* generateCacheKey *)

\* tmp[i] = redisArgs[i].length; tmp[i + n] = redisArgs[i]; tmp.join('_')
generateCacheKey(redisArgs) ==
    LET n == Len(redisArgs)
        tmp == [i \in 1..(2 * n) |->
                   IF i <= n THEN NumToString(length(redisArgs[i]))
                   ELSE toString(redisArgs[i - n])]
    IN Join(tmp, "_")

\* Arguments a command can carry, and the argument lists made of them.
Arguments ==
    { Str(""), Str("1"), Str("_"), Str("a"), Str("ab"), Str("bc"), Str("c"),
      Buf("0xFE"), Buf("0xFF") }

ArgLists == UNION {[1..n -> Arguments] : n \in 0..MaxArgs}

NoKeygen == [a |-> <<>>, b |-> <<>>, ka |-> "", kb |-> "", done |-> FALSE]

\* The cacheKey of each command (line 105).
KeyOf == [cmd \in AllCommands |-> generateCacheKey(cmd.redisArgs)]

CacheKeys == Range(KeyOf)

----------------------------------------------------------------------------
(* Values, outcomes *)

\* What a promise settled with, or what a caller received.
NoOutcome == [kind |-> "none", ref |-> "", v |-> <<>>, err |-> ""]

ValueOutcome(val) == [kind |-> "value", ref |-> val.ref, v |-> val.v, err |-> ""]

ErrorOutcome(e) == [kind |-> "error", ref |-> "", v |-> <<>>, err |-> e]

\* structuredClone: a new object with the same contents.
structuredClone(val) == [ref |-> "clone", v |-> val.v]

\* transformReply(reply, parser.preserve, typeMapping), when it returns: a new
\* object built from the reply (here: the reply's items followed by their count).
transformReply(reply) == [ref |-> "transformed", v |-> Append(reply.v, Len(reply.v))]

\* null: the reply to a read of one key that holds no value.
IsNull(val) == Len(val.v) = 1 /\ val.v[1] = 0

\* An array or object, as opposed to a string or null.
IsComposite(val) == Len(val.v) > 1

\* A caller's assignment to a field of an object it holds.
mutate(val) == [val EXCEPT !.v = Append(@, -1)]

\* The server's reply to a read: the current versions of the keys it addresses.
Reply(cmd, st) == [ref |-> "reply", v |-> [i \in DOMAIN cmd.keys |-> st[toString(cmd.keys[i])]]]

----------------------------------------------------------------------------
(* Statistics: the counter functions chosen by _initializeStatistics *)

ZeroStats == [hitCount |-> 0, missCount |-> 0, loadSuccessCount |-> 0,
              loadFailureCount |-> 0, totalLoadTime |-> 0, evictionCount |-> 0]

\* A hit counted with the misses.
\* A hit that is also counted as a load.
incHitAsLoad(s) ==
    IF enableStat
    THEN [s EXCEPT !.hitCount = @ + 1, !.loadSuccessCount = @ + 1]
    ELSE s

incHitAsMiss(s) == IF enableStat THEN [s EXCEPT !.missCount = @ + 1] ELSE s

incHit(s) == IF enableStat THEN [s EXCEPT !.hitCount = @ + 1] ELSE s

incMiss(s) == IF enableStat THEN [s EXCEPT !.missCount = @ + 1] ELSE s

incLoadSuccess(s) == IF enableStat THEN [s EXCEPT !.loadSuccessCount = @ + 1] ELSE s

\* A failure counted with the successes.
\* A failure path that counts nothing.
incLoadFailureDropped(s) == s

incLoadFailureAsSuccess(s) == incLoadSuccess(s)

incLoadFailure(s) == IF enableStat THEN [s EXCEPT !.loadFailureCount = @ + 1] ELSE s

addLoadTime(s, time) == IF enableStat THEN [s EXCEPT !.totalLoadTime = @ + time] ELSE s

incEviction(s, count) == IF enableStat THEN [s EXCEPT !.evictionCount = @ + count] ELSE s

\* A stats() that hands out the counters object itself.
statsReturnInternal ==
    IF enableStat THEN [ref |-> "_stats", v |-> stats]
    ELSE [ref |-> "literal", v |-> ZeroStats]

\* A stats() that returns the spread of the missing counters object when
\* statistics are disabled: an object without fields.
statsReturnSpread ==
    IF enableStat THEN [ref |-> "copy", v |-> stats]
    ELSE [ref |-> "copy", v |-> [k \in {} |-> 0]]

\* stats() (lines 206-218): a copy of this._stats, or an object of zeros.
statsReturn ==
    IF enableStat THEN [ref |-> "copy", v |-> stats]
    ELSE [ref |-> "literal", v |-> ZeroStats]

\* size(): this.cache.size
size == Cardinality(DOMAIN cache)

----------------------------------------------------------------------------
(* Map operations used by handleCache and invalidate *)

\* A lookup that takes a stored null for an absent entry.
hasValue(m, cacheKey) == cacheKey \in DOMAIN m /\ ~IsNull(m[cacheKey])

\* this.cache.has(cacheKey)
has(m, cacheKey) == cacheKey \in DOMAIN m

\* this.cache.set(cacheKey, value)
CacheSet(m, cacheKey, value) ==
    [k \in DOMAIN m \cup {cacheKey} |-> IF k = cacheKey THEN value ELSE m[k]]

\* A reverse index that registers the cacheKey under the first key only.
IndexAddFirstKeyOnly(idx, keys, cacheKey) ==
    LET strs == IF Len(keys) = 0 THEN {} ELSE {toString(keys[1])}
    IN [k \in DOMAIN idx \cup strs |->
           IF k \in strs
           THEN (IF k \in DOMAIN idx THEN idx[k] ELSE {}) \cup {cacheKey}
           ELSE idx[k]]

\* An index that files a read without keys under the empty key.
IndexAddKeylessUnderEmpty(idx, keys, cacheKey) ==
    LET strs == IF Len(keys) = 0 THEN {""} ELSE {toString(k) : k \in Range(keys)}
    IN [k \in DOMAIN idx \cup strs |->
           IF k \in strs
           THEN (IF k \in DOMAIN idx THEN idx[k] ELSE {}) \cup {cacheKey}
           ELSE idx[k]]

\* for (const key of parser.keys) { ...keyToCacheKeys.get(keyStr).add(cacheKey) }
IndexAdd(idx, keys, cacheKey) ==
    LET strs == {toString(k) : k \in Range(keys)}
    IN [k \in DOMAIN idx \cup strs |->
           IF k \in strs
           THEN (IF k \in DOMAIN idx THEN idx[k] ELSE {}) \cup {cacheKey}
           ELSE idx[k]]

\* for (const cacheKey of cacheKeys) this.cache.delete(cacheKey)
CacheDeleteAll(m, cacheKeys) == [k \in DOMAIN m \ cacheKeys |-> m[k]]

\* this.keyToCacheKeys.delete(keyStr)
IndexDelete(idx, keyStr) == [k \in DOMAIN idx \ {keyStr} |-> idx[k]]

\* new Map() / map.clear()
EmptyMap == [k \in {} |-> k]

\* this.emit('invalidate', key)
emit(ev, key) == Append(ev, key)

----------------------------------------------------------------------------
(* The state after construction; nothing has been read or written *)

NoCommand == [redisArgs |-> <<>>, keys |-> <<>>, transformReply |-> "none"]

\* A handleCache invocation that has not been made yet, or has settled.
NewCall == [st |-> "new", cmd |-> NoCommand, fnCalls |-> 0,
            out |-> NoOutcome, overtaken |-> FALSE]

DoneCall == [NewCall EXCEPT !.st = "done"]

\* No handleCache invocation settled in the last step.
\* What a listener of the 'invalidate' event reads from size() and stats().
Listener(c, st) ==
    [size |-> Cardinality(DOMAIN c), stats |-> IF enableStat THEN st ELSE ZeroStats]

NoSeen == Listener(EmptyMap, ZeroStats)

NoLast == [op |-> "none", cmd |-> NoCommand, fnCalls |-> 0, out |-> NoOutcome,
           ret |-> NoOutcome, seen |-> NoSeen]

\* Classes a caller can pass as options.CacheMapClass / options.KeyMapClass:
\* nothing, a class that is not a Map, a Map subclass whose set() evicts the
\* oldest entry once it holds maxSize entries.
NoMapClass == [class |-> "undefined", maxSize |-> 0]

NotAMap == [class |-> "NotAMap", maxSize |-> 0]

LimitedMap == [class |-> "LimitedMap", maxSize |-> 1]

DefaultOptions == [CacheMapClass |-> NoMapClass, KeyMapClass |-> NoMapClass]

MapOptions ==
    { [CacheMapClass |-> c, KeyMapClass |-> k] :
          c \in {NoMapClass, NotAMap, LimitedMap}, k \in {NoMapClass, NotAMap} }

\* Lines 57-62: super(); this.cache = new Map(); this.keyToCacheKeys = new Map();
\* only options.enableStat is read.
constructor(opts) ==
    [thrown |-> "none", cache |-> "Map", keyToCacheKeys |-> "Map"]

\* new SimpleClientSideCache({ enableStat: false }): its maps, the events it
\* has emitted, what its last handleCache returned or threw.
NoTwin == [cache |-> EmptyMap, keyToCacheKeys |-> EmptyMap, events |-> <<>>,
           ret |-> NoOutcome]

Fresh(opts, budget) ==
    /\ twin = NoTwin
    /\ cache = EmptyMap
    /\ keyToCacheKeys = EmptyMap
    /\ enableStat \in BOOLEAN
    /\ options = opts
    /\ instance = constructor(opts)
    /\ writeBudget = budget
    /\ stats = ZeroStats
    /\ events = <<>>
    /\ calls = [c \in 1..MaxReads |-> NewCall]
    /\ last = NoLast
    /\ nStarted = 0
    /\ store = [k \in KeyNames |-> 0]
    /\ tracked = {}
    /\ signals = <<>>
    /\ processed = <<>>
    /\ nWrites = 0
    /\ srcKeys = EmptyMap
    /\ run = [k \in CacheKeys |-> NoOutcome]
    /\ racy = {}

Constructed(opts, budget) == Fresh(opts, budget) /\ keygen = NoKeygen

\* new SimpleClientSideCache({ enableStat }) in front of a server that executes
\* up to MaxWrites writes.
Init == Constructed(DefaultOptions, MaxWrites)

\* The same, with one write more.
InitDeep == Constructed(DefaultOptions, MaxWrites + 1)

\* new SimpleClientSideCache({ enableStat, CacheMapClass, KeyMapClass }).
InitMap == \E opts \in MapOptions : Constructed(opts, MaxWrites)

\* A module that is about to call generateCacheKey on two argument lists.
InitKey ==
    /\ Fresh(DefaultOptions, MaxWrites)
    /\ keygen \in {[NoKeygen EXCEPT !.a = x, !.b = y] : x, y \in ArgLists}

----------------------------------------------------------------------------
(* handleCache *)

InFlight(c) == calls[c].st \in {"awaiting", "replied"}

\* Some invocation other than c with the same redisArgs is awaiting fn.
Overlaps(c, redisArgs) ==
    \E d \in 1..MaxReads : d # c /\ InFlight(d) /\ calls[d].cmd.redisArgs = redisArgs

\* A hit that hands out the stored object itself.
HitReturnStored(cacheKey) == cache[cacheKey]

\* The value a hit hands to the caller (line 109).
HitReturn(cacheKey) == structuredClone(cache[cacheKey])

\* The second cache while a step settles no handleCache invocation of it.
TwinIdle == [twin EXCEPT !.ret = NoOutcome]

\* Lines 105-117 on the second cache: its counters are the no-ops of lines
\* 85-90; on a hit it returns the clone of its own entry.
TwinStart(cmd) ==
    IF has(twin.cache, KeyOf[cmd])
    THEN [twin EXCEPT !.ret = ValueOutcome(structuredClone(twin.cache[KeyOf[cmd]]))]
    ELSE TwinIdle

\* A lookup that, on a miss, joins a read of the same redisArgs that is still
\* awaiting fn instead of calling fn again.
handleCacheStartDedup(cmd) ==
    LET c == nStarted + 1
        cacheKey == KeyOf[cmd]
    IN /\ nStarted < MaxReads
       /\ nStarted' = c
       /\ IF has(cache, cacheKey)
          THEN /\ stats' = incHit(stats)
               /\ calls' = [calls EXCEPT ![c] = DoneCall]
               /\ last' = [op |-> "hit", cmd |-> cmd, fnCalls |-> 0, out |-> NoOutcome,
                           ret |-> ValueOutcome(HitReturn(cacheKey)), seen |-> NoSeen]
          ELSE /\ stats' = incMiss(stats)
               /\ calls' = [calls EXCEPT ![c] =
                      [st |-> "awaiting", cmd |-> cmd,
                       fnCalls |-> IF Overlaps(c, cmd.redisArgs) THEN 0 ELSE 1,
                       out |-> NoOutcome, overtaken |-> FALSE]]
               /\ last' = NoLast
       /\ twin' = TwinStart(cmd)
       /\ UNCHANGED <<cache, keyToCacheKeys, config, events, store, tracked,
                      signals, processed, nWrites, srcKeys, run, racy>>

\* Lines 105-117: the lookup, and on a miss the call of fn up to the await.
handleCacheStart(cmd) ==
    LET c == nStarted + 1
        cacheKey == KeyOf[cmd]
    IN /\ nStarted < MaxReads
       /\ nStarted' = c
       /\ IF has(cache, cacheKey)
          THEN /\ stats' = incHit(stats)
               /\ calls' = [calls EXCEPT ![c] = DoneCall]
               /\ last' = [op |-> "hit", cmd |-> cmd, fnCalls |-> 0, out |-> NoOutcome,
                           ret |-> ValueOutcome(HitReturn(cacheKey)), seen |-> NoSeen]
          ELSE /\ stats' = incMiss(stats)
               /\ calls' = [calls EXCEPT ![c] =
                      [st |-> "awaiting", cmd |-> cmd, fnCalls |-> 1,
                       out |-> NoOutcome, overtaken |-> FALSE]]
               /\ last' = NoLast
       /\ twin' = TwinStart(cmd)
       /\ UNCHANGED <<cache, keyToCacheKeys, config, events, store, tracked,
                      signals, processed, nWrites, srcKeys, run, racy>>

\* fn() resolves: the server executes the read, remembers the keys for this
\* connection (CLIENT TRACKING ON) and the reply reaches the client.
fnResolve(c) ==
    /\ calls[c].st = "awaiting"
    /\ calls' = [calls EXCEPT ![c].st = "replied",
                              ![c].out = ValueOutcome(Reply(calls[c].cmd, store))]
    /\ tracked' = tracked \cup {toString(k) : k \in Range(calls[c].cmd.keys)}
    /\ last' = NoLast
    /\ twin' = TwinIdle
    /\ UNCHANGED <<cache, keyToCacheKeys, config, stats, events, nStarted, store,
                   signals, processed, nWrites, srcKeys, run, racy>>

\* A rejection that wraps the error of fn in an error of the cache.
RethrowWrapped(err) == ErrorOutcome("CacheError")

\* The error handleCache rejects with when fn rejected with err (line 121).
Rethrow(err) == ErrorOutcome(err)

\* Lines 128-130: the value that is stored and cloned for the caller.
ValueFor(cmd, reply) ==
    IF cmd.transformReply = "none" THEN [ref |-> "reply", v |-> reply.v]
    ELSE transformReply(reply)

\* A miss that returned the clone of the raw reply instead of the stored value.
MissReturnReply(reply, value) == structuredClone(reply)

\* The value a miss hands to the caller (line 144).
MissReturn(reply, value) == structuredClone(value)

\* What settles the invocation: the last step's record.
Settled(c, out, ret) ==
    [op |-> "miss", cmd |-> calls[c].cmd, fnCalls |-> calls[c].fnCalls,
     out |-> out, ret |-> ret, seen |-> NoSeen]

\* The error a throwing transformReply throws.
TransformError == "TypeError"

\* Lines 118-144 on the second cache.
TwinResume(c) ==
    LET cmd == calls[c].cmd
        cacheKey == KeyOf[cmd]
        value == ValueFor(cmd, calls[c].out)
    IN IF cmd.transformReply = "throws"
       THEN [twin EXCEPT !.ret = ErrorOutcome(TransformError)]
       ELSE [twin EXCEPT !.cache = CacheSet(@, cacheKey, value),
                         !.keyToCacheKeys = IndexAdd(@, cmd.keys, cacheKey),
                         !.ret = ValueOutcome(MissReturn(calls[c].out, value))]

\* Lines 119-121 on the second cache.
TwinReject(e) == [twin EXCEPT !.ret = Rethrow(e)]

\* A continuation that drops its result when an invalidation has overtaken it.
handleCacheResumeDiscarding(c, elapsed) ==
    LET cmd == calls[c].cmd
        cacheKey == KeyOf[cmd]
        value == ValueFor(cmd, calls[c].out)
        keep == ~calls[c].overtaken
    IN /\ calls[c].st = "replied"
       /\ calls' = [calls EXCEPT ![c] = DoneCall]
       /\ stats' = addLoadTime(incLoadSuccess(stats), elapsed)
       /\ cache' = IF keep THEN CacheSet(cache, cacheKey, value) ELSE cache
       /\ keyToCacheKeys' = IF keep THEN IndexAdd(keyToCacheKeys, cmd.keys, cacheKey)
                            ELSE keyToCacheKeys
       /\ srcKeys' = IF keep
                     THEN CacheSet(srcKeys, cacheKey, {toString(k) : k \in Range(cmd.keys)})
                     ELSE srcKeys
       /\ last' = Settled(c, calls[c].out, ValueOutcome(MissReturn(calls[c].out, value)))
       /\ run' = [run EXCEPT ![cacheKey] =
              IF Overlaps(c, cmd.redisArgs) THEN NoOutcome
              ELSE ValueOutcome(MissReturn(calls[c].out, value))]
       /\ racy' = racy \ {cacheKey}
       /\ twin' = TwinResume(c)
       /\ UNCHANGED <<config, events, nStarted, store, tracked, signals,
                      processed, nWrites>>

\* A continuation that waits until no invalidation push is pending.
handleCacheResumeWhenNoSignal(c, elapsed) ==
    LET cmd == calls[c].cmd
        cacheKey == KeyOf[cmd]
        value == ValueFor(cmd, calls[c].out)
        thrown == cmd.transformReply = "throws"
    IN /\ calls[c].st = "replied"
       /\ signals = <<>>
       /\ calls' = [calls EXCEPT ![c] = DoneCall]
       /\ stats' = addLoadTime(incLoadSuccess(stats), elapsed)
       /\ IF thrown
          THEN /\ UNCHANGED <<cache, keyToCacheKeys, srcKeys, racy>>
               /\ last' = Settled(c, calls[c].out, ErrorOutcome(TransformError))
               /\ run' = [run EXCEPT ![cacheKey] =
                      IF @.kind = "none" /\ ~Overlaps(c, cmd.redisArgs)
                      THEN ErrorOutcome("") ELSE @]
          ELSE /\ cache' = CacheSet(cache, cacheKey, value)
               /\ keyToCacheKeys' = IndexAdd(keyToCacheKeys, cmd.keys, cacheKey)
               /\ srcKeys' = CacheSet(srcKeys, cacheKey,
                                      {toString(k) : k \in Range(cmd.keys)})
               /\ last' = Settled(c, calls[c].out,
                                  ValueOutcome(MissReturn(calls[c].out, value)))
               /\ run' = [run EXCEPT ![cacheKey] =
                      IF Overlaps(c, cmd.redisArgs) THEN NoOutcome
                      ELSE ValueOutcome(MissReturn(calls[c].out, value))]
               /\ racy' = IF calls[c].overtaken THEN racy \cup {cacheKey}
                          ELSE racy \ {cacheKey}
       /\ twin' = TwinResume(c)
       /\ UNCHANGED <<config, events, nStarted, store, tracked, signals,
                      processed, nWrites>>

\* Lines 118 and 122-144: fn resolved; the continuation of handleCache. The
\* counter and the load time are updated (118, 122-126) before transformReply
\* is called (128-130); when it throws, handleCache rejects with its error and
\* the statements after it do not run.
handleCacheResume(c, elapsed) ==
    LET cmd == calls[c].cmd
        cacheKey == KeyOf[cmd]
        value == ValueFor(cmd, calls[c].out)
        thrown == cmd.transformReply = "throws"
    IN /\ calls[c].st = "replied"
       /\ calls' = [calls EXCEPT ![c] = DoneCall]
       /\ stats' = addLoadTime(incLoadSuccess(stats), elapsed)
       /\ IF thrown
          THEN /\ UNCHANGED <<cache, keyToCacheKeys, srcKeys, racy>>
               /\ last' = Settled(c, calls[c].out, ErrorOutcome(TransformError))
               /\ run' = [run EXCEPT ![cacheKey] =
                      IF @.kind = "none" /\ ~Overlaps(c, cmd.redisArgs)
                      THEN ErrorOutcome("") ELSE @]
          ELSE /\ cache' = CacheSet(cache, cacheKey, value)
               /\ keyToCacheKeys' = IndexAdd(keyToCacheKeys, cmd.keys, cacheKey)
               /\ srcKeys' = CacheSet(srcKeys, cacheKey,
                                      {toString(k) : k \in Range(cmd.keys)})
               /\ last' = Settled(c, calls[c].out,
                                  ValueOutcome(MissReturn(calls[c].out, value)))
               /\ run' = [run EXCEPT ![cacheKey] =
                      IF Overlaps(c, cmd.redisArgs) THEN NoOutcome
                      ELSE ValueOutcome(MissReturn(calls[c].out, value))]
               /\ racy' = IF calls[c].overtaken THEN racy \cup {cacheKey}
                          ELSE racy \ {cacheKey}
       /\ twin' = TwinResume(c)
       /\ UNCHANGED <<config, events, nStarted, store, tracked, signals,
                      processed, nWrites>>

\* Lines 119-126: fn rejects with e (the command fails, is cancelled or times
\* out in the transport); the catch and finally blocks run.
handleCacheReject(c, e, elapsed) ==
    /\ calls[c].st = "awaiting"
    /\ calls' = [calls EXCEPT ![c] = DoneCall]
    /\ stats' = addLoadTime(incLoadFailure(stats), elapsed)
    /\ last' = Settled(c, ErrorOutcome(e), Rethrow(e))
    /\ run' = [run EXCEPT ![KeyOf[calls[c].cmd]] =
           IF @.kind = "none" /\ ~Overlaps(c, calls[c].cmd.redisArgs)
           THEN ErrorOutcome("") ELSE @]
    /\ twin' = TwinReject(e)
    /\ UNCHANGED <<cache, keyToCacheKeys, config, events, nStarted, store, tracked,
                   signals, processed, nWrites, srcKeys, racy>>

----------------------------------------------------------------------------
(* invalidate, clear, onError, onClose *)

\* A global invalidation that forgets to clear the reverse index.
invalidateAllKeepIndex ==
    LET evictedCount == Cardinality(DOMAIN cache)
    IN /\ cache' = EmptyMap
       /\ keyToCacheKeys' = keyToCacheKeys
       /\ stats' = incEviction(stats, evictedCount)
       /\ events' = emit(events, Null)

\* A global invalidation whose removal is part of the counting strategy: with
\* statistics disabled it only emits.
invalidateAllIfCounting ==
    LET evictedCount == Cardinality(DOMAIN cache)
    IN /\ cache' = IF enableStat THEN EmptyMap ELSE cache
       /\ keyToCacheKeys' = IF enableStat THEN EmptyMap ELSE keyToCacheKeys
       /\ stats' = incEviction(stats, evictedCount)
       /\ events' = emit(events, Null)

\* Lines 161-169: key === null.
invalidateAll ==
    LET evictedCount == Cardinality(DOMAIN cache)
    IN /\ cache' = EmptyMap
       /\ keyToCacheKeys' = EmptyMap
       /\ stats' = incEviction(stats, evictedCount)
       /\ events' = emit(events, Null)

\* An invalidation that drops the whole forward map.
CacheAfterInvalidateEverything(keyStr) == EmptyMap

\* An invalidation that deletes the index entry and leaves the forward map alone.
CacheAfterInvalidateNothing(keyStr) == cache

\* The forward map after invalidate(key) for a key present in the index.
\* An invalidation that overwrites the entries with an empty reply, in place.
CacheAfterInvalidateBlanks(keyStr) ==
    [k \in DOMAIN cache |->
        IF k \in keyToCacheKeys[keyStr] THEN [ref |-> "reply", v |-> <<>>] ELSE cache[k]]

CacheAfterInvalidate(keyStr) == CacheDeleteAll(cache, keyToCacheKeys[keyStr])

\* The reverse index after invalidate(key) for a key present in the index.
\* An invalidation that empties the key's index set and keeps the entry.
IndexAfterInvalidateEmptied(keyStr) ==
    [k \in DOMAIN keyToCacheKeys |-> IF k = keyStr THEN {} ELSE keyToCacheKeys[k]]

\* An invalidation that removes the forward entries and keeps the index.
IndexAfterInvalidateKept(keyStr) == keyToCacheKeys

IndexAfterInvalidate(keyStr) == IndexDelete(keyToCacheKeys, keyStr)

\* An event that carries the key's string instead of the key passed in.
EventPayloadString(key) == Str(toString(key))

\* The payload of the event invalidate(key) emits (line 185).
EventPayload(key) == key

\* An invalidation that returns early, without the event, when the key has no
\* index entry.
invalidateKeyQuiet(key) ==
    LET keyStr == toString(key)
    IN IF keyStr \in DOMAIN keyToCacheKeys
       THEN /\ cache' = CacheDeleteAll(cache, keyToCacheKeys[keyStr])
            /\ keyToCacheKeys' = IndexDelete(keyToCacheKeys, keyStr)
            /\ stats' = incEviction(stats, Cardinality(keyToCacheKeys[keyStr]))
            /\ events' = emit(events, key)
       ELSE UNCHANGED <<cache, keyToCacheKeys, stats, events>>

\* Lines 171-185: a specific key.
invalidateKey(key) ==
    LET keyStr == toString(key)
    IN /\ IF keyStr \in DOMAIN keyToCacheKeys
          THEN LET cacheKeys == keyToCacheKeys[keyStr]
                   evictedCount == Cardinality(cacheKeys)
               IN /\ cache' = CacheAfterInvalidate(keyStr)
                  /\ keyToCacheKeys' = IndexAfterInvalidate(keyStr)
                  /\ stats' = incEviction(stats, evictedCount)
          ELSE UNCHANGED <<cache, keyToCacheKeys, stats>>
       /\ events' = emit(events, EventPayload(key))

\* An emit that runs before the maps and the counter are updated.
AtEmitFirst(before, after) == before

\* this.emit('invalidate', key) is the last statement of both branches (lines
\* 167 and 185): its listeners run when the statements before it have run.
AtEmit(before, after) == after

\* The last step's record of an invalidate: what the listener observed.
Emitted(key) ==
    [NoLast EXCEPT !.op = "invalidate",
                   !.seen = AtEmit(Listener(cache, stats), Listener(cache', stats'))]

\* A read whose reply has arrived and is not stored yet (bookkeeping): an
\* invalidation of one of its keys, or of everything, overtakes it.
Overtake(cs, key) ==
    [c \in DOMAIN cs |->
        IF cs[c].st = "replied"
           /\ (key = Null \/ toString(key) \in {toString(k) : k \in Range(cs[c].cmd.keys)})
        THEN [cs[c] EXCEPT !.overtaken = TRUE]
        ELSE cs[c]]

\* Lines 160-186 on the second cache.
TwinInvalidate(key) ==
    IF key = Null
    THEN [twin EXCEPT !.cache = EmptyMap, !.keyToCacheKeys = EmptyMap,
                      !.events = emit(@, Null), !.ret = NoOutcome]
    ELSE LET keyStr == toString(key)
             known == keyStr \in DOMAIN twin.keyToCacheKeys
         IN [twin EXCEPT
                !.cache = IF known THEN CacheDeleteAll(@, twin.keyToCacheKeys[keyStr])
                          ELSE @,
                !.keyToCacheKeys = IF known THEN IndexDelete(@, keyStr) ELSE @,
                !.events = emit(@, EventPayload(key)),
                !.ret = NoOutcome]

\* An invalidate that runs only once no read is awaiting fn.
invalidateWhenIdle(key) ==
    /\ \A c \in 1..MaxReads : ~InFlight(c)
    /\ IF key = Null THEN invalidateAll ELSE invalidateKey(key)
    /\ srcKeys' = [k \in DOMAIN cache' |-> srcKeys[k]]
    /\ racy' = racy \cap DOMAIN cache'
    /\ processed' = Append(processed, key)
    /\ calls' = Overtake(calls, key)
    /\ run' = [k \in CacheKeys |-> NoOutcome]
    /\ last' = Emitted(key)
    /\ twin' = TwinInvalidate(key)

invalidate(key) ==
    /\ IF key = Null THEN invalidateAll ELSE invalidateKey(key)
    /\ srcKeys' = [k \in DOMAIN cache' |-> srcKeys[k]]
    /\ racy' = racy \cap DOMAIN cache'
    /\ processed' = Append(processed, key)
    /\ calls' = Overtake(calls, key)
    /\ run' = [k \in CacheKeys |-> NoOutcome]
    /\ last' = Emitted(key)
    /\ twin' = TwinInvalidate(key)

\* The transport delivers the next invalidation push to the cache.
Deliver ==
    /\ signals # <<>>
    /\ invalidate(Head(signals))
    /\ signals' = Tail(signals)
    /\ UNCHANGED <<config, nStarted, store, tracked, nWrites>>

\* The forward map and the reverse index, as clear() sees them.
Maps == [cache |-> cache, keyToCacheKeys |-> keyToCacheKeys]

\* A clear that empties the forward map only.
clearOfCacheOnly(maps) == [cache |-> EmptyMap, keyToCacheKeys |-> maps.keyToCacheKeys]

\* Lines 192-193: this.cache.clear(); this.keyToCacheKeys.clear().
clearOf(maps) == [cache |-> EmptyMap, keyToCacheKeys |-> EmptyMap]

\* Lines 191-194 on the second cache.
TwinClear ==
    [twin EXCEPT !.cache = EmptyMap, !.keyToCacheKeys = EmptyMap, !.ret = NoOutcome]

\* A clear that also abandons the reads in flight.
clearCancelling ==
    /\ cache' = clearOf(Maps).cache
    /\ keyToCacheKeys' = clearOf(Maps).keyToCacheKeys
    /\ calls' = [c \in DOMAIN calls |-> IF InFlight(c) THEN DoneCall ELSE calls[c]]
    /\ srcKeys' = [k \in DOMAIN cache' |-> srcKeys[k]]
    /\ racy' = racy \cap DOMAIN cache'
    /\ run' = [k \in CacheKeys |-> NoOutcome]
    /\ last' = NoLast
    /\ twin' = TwinClear
    /\ UNCHANGED <<config, stats, events, nStarted, store, tracked, signals,
                   processed, nWrites>>

\* A clear that reports what it removed like invalidate(null) does.
clearAsInvalidation ==
    /\ cache' = clearOf(Maps).cache
    /\ keyToCacheKeys' = clearOf(Maps).keyToCacheKeys
    /\ stats' = incEviction(stats, Cardinality(DOMAIN cache))
    /\ events' = emit(events, Null)
    /\ srcKeys' = [k \in DOMAIN cache' |-> srcKeys[k]]
    /\ racy' = racy \cap DOMAIN cache'
    /\ run' = [k \in CacheKeys |-> NoOutcome]
    /\ last' = NoLast
    /\ twin' = TwinClear
    /\ UNCHANGED <<config, calls, nStarted, store, tracked, signals, processed, nWrites>>

\* Lines 191-194.
clear ==
    /\ cache' = clearOf(Maps).cache
    /\ keyToCacheKeys' = clearOf(Maps).keyToCacheKeys
    /\ srcKeys' = [k \in DOMAIN cache' |-> srcKeys[k]]
    /\ racy' = racy \cap DOMAIN cache'
    /\ run' = [k \in CacheKeys |-> NoOutcome]
    /\ last' = NoLast
    /\ twin' = TwinClear
    /\ UNCHANGED <<config, stats, events, calls, nStarted, store, tracked, signals,
                   processed, nWrites>>

\* A transport error after which only the forward map is emptied.
onErrorCacheOnly ==
    /\ cache' = EmptyMap
    /\ srcKeys' = EmptyMap
    /\ racy' = {}
    /\ run' = [k \in CacheKeys |-> NoOutcome]
    /\ last' = NoLast
    /\ twin' = TwinClear
    /\ UNCHANGED <<keyToCacheKeys, config, stats, events, calls, nStarted, store,
                   tracked, signals, processed, nWrites>>

\* Lines 223-225: this.clear().
onError == clear

\* Lines 230-232: this.clear().
onClose == clear

\* The caller assigns to a field of the composite value the last read returned;
\* the stored entry changes if that value is the stored object itself.
callerMutates ==
    /\ last.op \in {"hit", "miss"}
    /\ last.ret.kind = "value"
    /\ IsComposite(last.ret)
    /\ cache' = IF last.ret.ref # "clone" /\ KeyOf[last.cmd] \in DOMAIN cache
                THEN [cache EXCEPT ![KeyOf[last.cmd]] = mutate(@)]
                ELSE cache
    /\ UNCHANGED twin
    /\ UNCHANGED <<keyToCacheKeys, config, stats, events, calls, last, nStarted, store,
                   tracked, signals, processed, nWrites, srcKeys, run, racy>>

\* The caller calls stats() and assigns hitCount = 999 on the object returned;
\* the counters change if that object is this._stats itself.
callerMutatesStats ==
    /\ stats' = IF statsReturn.ref = "_stats" THEN [stats EXCEPT !.hitCount = 999]
                ELSE stats
    /\ UNCHANGED twin
    /\ UNCHANGED <<cache, keyToCacheKeys, config, events, calls, last, nStarted, store,
                   tracked, signals, processed, nWrites, srcKeys, run, racy>>

----------------------------------------------------------------------------
(* The Redis server: writes by any client *)

\* SET/DEL of key k by some client: the server pushes one invalidation to a
\* connection that has read k since the last push, and forgets the key.
Write(k) ==
    /\ nWrites < writeBudget
    /\ nWrites' = nWrites + 1
    /\ store' = [store EXCEPT ![k] = @ + 1]
    /\ IF k \in tracked
       THEN /\ signals' = Append(signals, Buf(k))
            /\ tracked' = tracked \ {k}
       ELSE UNCHANGED <<signals, tracked>>
    /\ last' = NoLast
    /\ twin' = TwinIdle
    /\ UNCHANGED <<cache, keyToCacheKeys, config, stats, events, calls, nStarted,
                   processed, srcKeys, run, racy>>

\* FLUSHDB: every key loses its value; the server pushes a null invalidation.
FlushDb ==
    /\ nWrites < writeBudget
    /\ nWrites' = nWrites + 1
    /\ store' = [k \in KeyNames |-> 0]
    /\ signals' = Append(signals, Null)
    /\ tracked' = {}
    /\ last' = NoLast
    /\ twin' = TwinIdle
    /\ UNCHANGED <<cache, keyToCacheKeys, config, stats, events, calls, nStarted,
                   processed, srcKeys, run, racy>>

----------------------------------------------------------------------------

Next ==
    \/ \E cmd \in Commands : handleCacheStart(cmd)
    \/ \E c \in 1..MaxReads : fnResolve(c)
    \/ \E c \in 1..MaxReads, elapsed \in Elapsed : handleCacheResume(c, elapsed)
    \/ \E c \in 1..MaxReads, e \in Errors, elapsed \in Elapsed :
           handleCacheReject(c, e, elapsed)
    \/ Deliver
    \/ clear
    \/ onError
    \/ onClose
    \/ callerMutates
    \/ callerMutatesStats
    \/ \E k \in KeyNames : Write(k)
    \/ FlushDb

Spec == Init /\ [][Next]_vars

SpecDeep == InitDeep /\ [][Next]_vars

SpecMap == InitMap /\ [][Next]_vars

\* The same operations, for a caller that issues the reads of EdgeCommands.
NextEdge ==
    \/ \E cmd \in EdgeCommands : handleCacheStart(cmd)
    \/ \E c \in 1..MaxReads : fnResolve(c)
    \/ \E c \in 1..MaxReads, elapsed \in Elapsed : handleCacheResume(c, elapsed)
    \/ \E c \in 1..MaxReads, e \in Errors, elapsed \in Elapsed :
           handleCacheReject(c, e, elapsed)
    \/ Deliver
    \/ clear
    \/ onError
    \/ onClose
    \/ callerMutates
    \/ callerMutatesStats
    \/ \E k \in KeyNames : Write(k)
    \/ FlushDb

SpecEdge == Init /\ [][NextEdge]_vars

\* The single-key reads: the workload of the read / write churn.
ChurnCommands == {cmd \in Commands : Len(cmd.keys) = 1}

\* The same operations, for a caller that issues single-key reads only (their
\* replies are scalars, which a caller cannot mutate).
NextChurn ==
    \/ \E cmd \in ChurnCommands : handleCacheStart(cmd)
    \/ \E c \in 1..MaxReads : fnResolve(c)
    \/ \E c \in 1..MaxReads, elapsed \in Elapsed : handleCacheResume(c, elapsed)
    \/ \E c \in 1..MaxReads, e \in Errors, elapsed \in Elapsed :
           handleCacheReject(c, e, elapsed)
    \/ Deliver
    \/ clear
    \/ onError
    \/ onClose
    \/ callerMutatesStats
    \/ \E k \in KeyNames : Write(k)
    \/ FlushDb

SpecChurn == Init /\ [][NextChurn]_vars

\* The scheduling handleCache relies on: the fn of a read that is awaiting it
\* settles (the transport answers, fails, cancels or times out), and the
\* continuation of an await whose promise has resolved is run by the event
\* loop. Nothing is assumed about invalidations, resets, writes or new reads.
Fairness ==
    /\ WF_vars(\E c \in 1..MaxReads :
                  \/ fnResolve(c)
                  \/ \E e \in Errors, elapsed \in Elapsed : handleCacheReject(c, e, elapsed))
    /\ WF_vars(\E c \in 1..MaxReads, elapsed \in Elapsed : handleCacheResume(c, elapsed))

\* new SimpleClientSideCache({ enableStat: true }).
InitLive == Init /\ enableStat

\* Reads, their settling, writes with their invalidation pushes, and resets
\* (clear stands for onError and onClose, which only call it).
NextLive ==
    \/ \E cmd \in ChurnCommands : handleCacheStart(cmd)
    \/ \E c \in 1..MaxReads : fnResolve(c)
    \/ \E c \in 1..MaxReads, elapsed \in Elapsed : handleCacheResume(c, elapsed)
    \/ \E c \in 1..MaxReads, e \in Errors, elapsed \in Elapsed :
           handleCacheReject(c, e, elapsed)
    \/ Deliver
    \/ clear
    \/ \E k \in KeyNames : Write(k)

\* The single-key workload with counting, under that scheduling.
SpecLive == InitLive /\ [][NextLive]_vars /\ Fairness

\* generateCacheKey(keygen.a) and generateCacheKey(keygen.b), called directly.
generateCacheKeys ==
    /\ ~keygen.done
    /\ keygen' = [keygen EXCEPT !.ka = generateCacheKey(keygen.a),
                                !.kb = generateCacheKey(keygen.b),
                                !.done = TRUE]
    /\ UNCHANGED <<cache, keyToCacheKeys, enableStat, options, instance, writeBudget,
                   stats, events, calls, last, nStarted, store, tracked, signals,
                   processed, nWrites, srcKeys, run, racy, twin>>

NextKey == generateCacheKeys

SpecKey == InitKey /\ [][NextKey]_vars

----------------------------------------------------------------------------
(* Steps and states the properties speak about *)

\* A handleCache invocation is made in this step.
ReadStartStep == nStarted' = nStarted + 1

\* The command of the invocation made in this step.
StartedCmd == IF last'.op = "hit" THEN last'.cmd ELSE calls'[nStarted'].cmd

\* invalidate() runs in this step, with this argument.
InvalidateStep == Len(processed') = Len(processed) + 1

InvalidatedKey == processed'[Len(processed')]

\* Nothing is pending: no signal undelivered, no read awaiting fn or its continuation.
Quiescent == signals = <<>> /\ \A c \in 1..MaxReads : ~InFlight(c)

\* The cached value of cmd differs from what a read of the store would now store.
Stale(cmd) ==
    /\ KeyOf[cmd] \in DOMAIN cache
    /\ cache[KeyOf[cmd]].v # ValueFor(cmd, Reply(cmd, store)).v

\* A step's increment of a counter, when statistics are enabled.
One == IF enableStat THEN 1 ELSE 0

\* A handleCache invocation stores its value in this step.
StoreStep == last'.op = "miss" /\ last'.ret.kind = "value"

\* clear(), onError() or onClose() runs in this step and finds something to
\* remove: the only steps that change a map and neither start nor settle a
\* read, nor process a signal.
ResetStep ==
    /\ <<cache, keyToCacheKeys>>' # <<cache, keyToCacheKeys>>
    /\ UNCHANGED <<nStarted, calls, processed>>

\* The handleCache invocations that are suspended at await fn().
Suspended == {c \in 1..MaxReads : InFlight(c)}

----------------------------------------------------------------------------
(* Properties *)

\* C1: every cacheKey in the forward map is a member of the reverse-index set
\* of each source key of the read that stored it, in every reachable state (so
\* also in the state right after the insert: entry and memberships appear in
\* one step).
C1_ForwardEntriesIndexed ==
    \A ck \in DOMAIN cache :
        \A k \in srcKeys[ck] :
            k \in DOMAIN keyToCacheKeys /\ ck \in keyToCacheKeys[k]

\* A two-key result is cached again after an invalidation has been processed.
C1_Witness ==
    /\ processed # <<>>
    /\ \E ck \in DOMAIN cache : Cardinality(srcKeys[ck]) = 2

\* C2: no reverse-index set holds a cacheKey that is absent from the forward map.
C2_NoOrphanedMemberships ==
    \A k \in DOMAIN keyToCacheKeys : keyToCacheKeys[k] \subseteq DOMAIN cache

\* C3: invalidate(K) for a specific key removes from the forward map exactly the
\* entries whose source keys include K and leaves every other entry with its
\* value; an entry that is present is served as a hit with that value.
C3_PreciseInvalidation ==
    /\ [][(InvalidateStep /\ InvalidatedKey # Null) =>
            LET K == toString(InvalidatedKey)
                kept == {ck \in DOMAIN cache : K \notin srcKeys[ck]}
            IN cache' = [ck \in kept |-> cache[ck]]]_vars
    /\ [][(ReadStartStep /\ KeyOf[StartedCmd] \in DOMAIN cache) =>
            /\ last'.op = "hit"
            /\ last'.ret.kind = "value"
            /\ last'.ret.v = cache[KeyOf[StartedCmd]].v]_vars

\* invalidate(a) has removed the result over {a, b} and kept the result over {b}.
C3_Witness ==
    /\ enableStat
    /\ processed = <<Buf("a")>>
    /\ stats.evictionCount = 1
    /\ stats.loadSuccessCount = 2
    /\ DOMAIN cache = {KeyOf[CHOOSE cmd \in Commands : cmd.redisArgs = <<Str("GET"), Str("b")>>]}

\* C4 as stated: when no signal is pending and no read is in flight, the
\* forward map holds no value that is stale relative to the store.
C4_NoStaleWhenQuiescent == Quiescent => \A cmd \in Commands : ~Stale(cmd)

\* C4 as amended: when no signal is pending and no read is in flight, a value
\* in the forward map is stale only if it was stored by a read whose reply had
\* arrived before an invalidation of one of its source keys (or of everything)
\* was processed and whose result was stored after it.
C4_StaleOnlyByOvertakenRead ==
    Quiescent => \A cmd \in Commands : Stale(cmd) => KeyOf[cmd] \in racy

\* A write's signal has been processed and removed an entry; the key has been
\* read again and nothing is pending.
C4_Witness ==
    /\ Quiescent
    /\ enableStat
    /\ nWrites >= 1
    /\ processed # <<>>
    /\ stats.evictionCount >= 1
    /\ cache # EmptyMap

\* C5 as stated: once a read with given redisArgs has settled and no invalidate
\* or clear has run since, every later read with the same redisArgs is a hit
\* that does not invoke fn.
C5_EveryLaterReadHits ==
    [][(ReadStartStep /\ run[KeyOf[StartedCmd]].kind # "none") =>
          (last'.op = "hit" /\ last'.fnCalls = 0)]_vars

\* C5 as amended: a read whose cacheKey is absent is a miss that invokes fn
\* once; once a miss that overlaps no other read with the same redisArgs has
\* returned a value and no invalidate or clear has run since, every later read
\* with the same redisArgs is a hit that does not invoke fn and returns a value
\* deeply equal to the one that miss returned.
C5_HitsAfterFirstReturn ==
    [][ReadStartStep =>
          LET ck == KeyOf[StartedCmd]
          IN /\ ck \notin DOMAIN cache =>
                  /\ last'.op = "none"
                  /\ calls'[nStarted'].st = "awaiting"
                  /\ calls'[nStarted'].fnCalls = 1
             /\ run[ck].kind = "value" =>
                  /\ last'.op = "hit"
                  /\ last'.fnCalls = 0
                  /\ last'.ret.kind = "value"
                  /\ last'.ret.v = run[ck].v]_vars

\* The latest read was a hit on a transformed result that an earlier miss returned.
C5_Witness ==
    /\ last.op = "hit"
    /\ last.cmd.transformReply = "ok"
    /\ run[KeyOf[last.cmd]].kind = "value"
    /\ last.ret.v = run[KeyOf[last.cmd]].v

\* C6: invalidate(null) leaves the forward map and the reverse index empty,
\* size() = 0, and emits exactly one event, whose payload is null.
C6_GlobalInvalidation ==
    [][(InvalidateStep /\ InvalidatedKey = Null) =>
          /\ cache' = EmptyMap
          /\ keyToCacheKeys' = EmptyMap
          /\ Cardinality(DOMAIN cache') = 0
          /\ events' = Append(events, Null)]_vars

\* invalidate(null) has run on a cache that held two results.
C6_Witness ==
    /\ enableStat
    /\ processed = <<Null>>
    /\ stats.evictionCount = 2
    /\ events = <<Null>>
    /\ size = 0

\* C7: a miss counts one miss when it starts; when its fn rejects, the forward
\* map and the reverse index stay as they are, and the read adds one
\* loadFailure and no loadSuccess, miss or hit.
C7_RejectCachesNothing ==
    /\ [][(ReadStartStep /\ KeyOf[StartedCmd] \notin DOMAIN cache) =>
            stats' = [stats EXCEPT !.missCount = @ + One]]_vars
    /\ [][(last'.op = "miss" /\ last'.out.kind = "error") =>
            /\ cache' = cache
            /\ keyToCacheKeys' = keyToCacheKeys
            /\ Cardinality(DOMAIN cache') = size
            /\ stats'.loadFailureCount = stats.loadFailureCount + One
            /\ stats'.loadSuccessCount = stats.loadSuccessCount
            /\ stats'.missCount = stats.missCount
            /\ stats'.hitCount = stats.hitCount]_vars

\* A read has just failed while another result was cached.
C7_Witness ==
    /\ enableStat
    /\ last.op = "miss"
    /\ last.out.kind = "error"
    /\ stats.loadFailureCount = 1
    /\ cache # EmptyMap

\* C8: the caller of a failed read receives exactly the error fn rejected
\* with; fn is invoked once by a miss and never by a hit.
C8_ErrorUnchangedNoRetry ==
    /\ (last.op = "miss" /\ last.out.kind = "error") => last.ret = last.out
    /\ last.op = "miss" => last.fnCalls = 1
    /\ last.op = "hit" => last.fnCalls = 0
    /\ \A c \in 1..MaxReads : InFlight(c) => calls[c].fnCalls = 1

\* A read has just failed with the transport's timeout error.
C8_Witness ==
    /\ last.op = "miss"
    /\ last.out = ErrorOutcome("ETIMEDOUT")
    /\ last.ret.kind = "error"

\* C9: invalidate(K) for a key with no entry in the reverse index changes
\* neither map nor any counter and emits the event carrying K.
C9_UnknownKeyIsNoOp ==
    [][(InvalidateStep /\ InvalidatedKey # Null
          /\ toString(InvalidatedKey) \notin DOMAIN keyToCacheKeys) =>
          /\ cache' = cache
          /\ keyToCacheKeys' = keyToCacheKeys
          /\ stats' = stats
          /\ events' = Append(events, InvalidatedKey)]_vars

\* invalidate(a) has run while only a result over {b} was indexed.
C9_Witness ==
    /\ enableStat
    /\ processed = <<Buf("a")>>
    /\ events = <<Buf("a")>>
    /\ stats.evictionCount = 0
    /\ cache # EmptyMap

C11_NullIsCached ==
    /\ [][(StoreStep /\ IsNull(last'.ret)) =>
            /\ KeyOf[last'.cmd] \in DOMAIN cache'
            /\ IsNull(cache'[KeyOf[last'.cmd]])
            /\ Cardinality(DOMAIN cache') >= 1]_vars
    /\ [][(ReadStartStep /\ KeyOf[StartedCmd] \in DOMAIN cache
             /\ IsNull(cache[KeyOf[StartedCmd]])) =>
            /\ last'.op = "hit"
            /\ last'.fnCalls = 0
            /\ IsNull(last'.ret)
            /\ calls'[nStarted'].st = "done"]_vars
    /\ [][(InvalidateStep /\ InvalidatedKey # Null) =>
            \A ck \in DOMAIN cache :
                (IsNull(cache[ck]) /\ toString(InvalidatedKey) \in srcKeys[ck])
                    => ck \notin DOMAIN cache']_vars

\* A read of one key that holds no value missed, the same read then hit, and
\* the write of the key has removed the entry.
C11_Witness ==
    /\ enableStat
    /\ stats.missCount = 1
    /\ stats.hitCount = 1
    /\ stats.evictionCount = 1
    /\ processed = <<Buf("a")>>
    /\ tracked = {}
    /\ size = 0

\* C12: each invalidation adds to evictionCount exactly the number of entries
\* it removed from the forward map.
C12_EvictionCountExact ==
    [][InvalidateStep =>
          stats'.evictionCount = stats.evictionCount +
              (IF enableStat THEN size - Cardinality(DOMAIN cache') ELSE 0)]_vars

\* C13: with statistics enabled, hitCount + missCount is the number of
\* handleCache calls started, and missCount is the number of those that went
\* to fn (the ones still suspended and the ones whose load succeeded or failed),
\* so hitCount is the number of those that found their cacheKey.
C13_HitMissCounts ==
    enableStat =>
        /\ stats.hitCount + stats.missCount = nStarted
        /\ stats.missCount = Cardinality(Suspended) + stats.loadSuccessCount
                                 + stats.loadFailureCount

\* A miss and a hit have been counted.
C13_Witness ==
    /\ enableStat
    /\ nStarted = 2
    /\ stats.hitCount = 1
    /\ stats.missCount = 1

\* C14: with statistics disabled, stats() returns the six counters, each zero,
\* and no counter is ever written.
C14_DisabledStatsAreZero ==
    ~enableStat =>
        /\ DOMAIN statsReturn.v = {"hitCount", "missCount", "loadSuccessCount",
                                   "loadFailureCount", "totalLoadTime", "evictionCount"}
        /\ \A f \in DOMAIN statsReturn.v : statsReturn.v[f] = 0
        /\ stats = ZeroStats

\* With statistics disabled, a read has been stored, an invalidation has
\* removed it and another read has just failed.
C14_Witness ==
    /\ ~enableStat
    /\ nStarted = 2
    /\ processed # <<>>
    /\ size = 0
    /\ keyToCacheKeys = EmptyMap
    /\ nWrites = 1
    /\ tracked # {}
    /\ last.op = "miss"
    /\ last.out.kind = "error"

\* C15: after onError() or onClose() (as after clear()) the forward map and the
\* reverse index are empty and size() = 0, whatever they held before.
C15_TransportLossEmptiesMaps ==
    [][ResetStep =>
          /\ cache' = EmptyMap
          /\ keyToCacheKeys' = EmptyMap
          /\ Cardinality(DOMAIN cache') = 0]_vars

\* Two results were stored and no invalidation was processed, yet both maps
\* are empty: the transport was lost (or clear() called) after the reads.
C15_Witness ==
    /\ enableStat
    /\ stats.loadSuccessCount = 2
    /\ processed = <<>>
    /\ Suspended = {}
    /\ cache = EmptyMap
    /\ keyToCacheKeys = EmptyMap

\* C16: in every state, clear() leaves both maps empty, and clear() applied to
\* its own result leaves that result as it is.
C16_ClearIsIdempotent ==
    LET once == clearOf(Maps)
    IN /\ once.cache = EmptyMap
       /\ once.keyToCacheKeys = EmptyMap
       /\ clearOf(once) = once

\* clear() has emptied the maps after a result was stored, while another read
\* is suspended.
C16_Witness ==
    /\ enableStat
    /\ stats.loadSuccessCount = 1
    /\ processed = <<>>
    /\ Suspended # {}
    /\ cache = EmptyMap
    /\ keyToCacheKeys = EmptyMap

\* C17: the value a read returns is a new object with the content of the stored
\* one, and no assignment a caller makes to a returned composite value shows
\* in a stored value.
C17_ReturnedValuesAreCopies ==
    /\ (last.op \in {"hit", "miss"} /\ last.ret.kind = "value") =>
          /\ last.ret.ref = "clone"
          /\ KeyOf[last.cmd] \in DOMAIN cache
          /\ last.ret.v = cache[KeyOf[last.cmd]].v
    /\ \A ck \in DOMAIN cache : -1 \notin Range(cache[ck].v)

\* A composite result was returned by a miss and has just been returned again
\* by a hit.
C17_Witness ==
    /\ last.op = "hit"
    /\ IsComposite(last.ret)
    /\ run[KeyOf[last.cmd]].kind = "value"
    /\ run[KeyOf[last.cmd]].ref = "clone"
    /\ ENABLED callerMutates

\* C18: construction with a CacheMapClass or KeyMapClass that is not a Map
\* fails with a TypeError.
C18_InvalidMapClassThrows ==
    (options.CacheMapClass = NotAMap \/ options.KeyMapClass = NotAMap)
        => instance.thrown = "TypeError"

\* C19: constructed with a CacheMapClass that holds at most maxSize entries,
\* size() never exceeds maxSize (the claim's other half, that the forward map
\* is an instance of that class, fails from construction on: instance.cache
\* is "Map").
C19_BoundedMapBoundsSize ==
    options.CacheMapClass = LimitedMap => size <= options.CacheMapClass.maxSize

\* C20: stats() returns an object other than the internal counters, with the
\* counters' values, and the caller's assignment hitCount = 999 to a returned
\* object never shows in what stats() returns.
C20_StatsReturnsSnapshot ==
    /\ statsReturn.ref # "_stats"
    /\ enableStat => statsReturn.v = stats
    /\ statsReturn.v.hitCount <= nStarted

\* stats() is called with statistics enabled after a hit and a load.
C20_Witness ==
    /\ enableStat
    /\ statsReturn.v.hitCount = 1
    /\ statsReturn.v.loadSuccessCount = 1
    /\ ENABLED callerMutatesStats

----------------------------------------------------------------------------
\* C21: generateCacheKey is injective on ordered argument lists: two argument
\* lists (of strings and Buffers, empty arguments, digits, the separator '_',
\* lists of different lengths) get the same cacheKey if and only if they are
\* the same list.
C21_KeysAreInjective ==
    keygen.done => ((keygen.ka = keygen.kb) <=> (keygen.a = keygen.b))

\* C22: the read/invalidate race is accepted. A read that continues after fn
\* resolved stores its value whatever was invalidated in between, also when
\* its reply had arrived before an invalidation of one of its keys (or of
\* everything) was processed; a later read of the same
\* redisArgs is a hit that returns this value; the entry stays in the forward
\* map, with this value, until an invalidation of one of its source keys, an
\* invalidation of everything, a clear / onError / onClose, or another read of
\* the same redisArgs that stores its own result.
C22_RaceIsAccepted ==
    [][ /\ \A c \in 1..MaxReads :
               (calls[c].st = "replied" /\ calls'[c].st = "done")
                  => LET cacheKey == KeyOf[calls[c].cmd]
                     IN /\ cacheKey \in DOMAIN cache'
                        /\ cache'[cacheKey] = ValueFor(calls[c].cmd, calls[c].out)
                        /\ calls[c].overtaken => cacheKey \in racy'
        /\ (ReadStartStep /\ KeyOf[StartedCmd] \in racy)
               => /\ last'.op = "hit"
                  /\ last'.fnCalls = 0
                  /\ last'.ret.v = cache[KeyOf[StartedCmd]].v
        /\ \A cacheKey \in racy :
               \/ /\ cacheKey \in DOMAIN cache'
                  /\ \/ cache'[cacheKey] = cache[cacheKey]
                     \/ StoreStep /\ KeyOf[last'.cmd] = cacheKey
               \/ ResetStep
               \/ /\ InvalidateStep
                  /\ \/ InvalidatedKey = Null
                     \/ toString(InvalidatedKey) \in srcKeys[cacheKey] ]_vars

\* A value stored by an overtaken read is stale and has just been served as
\* a hit, after the invalidation was processed.
C22_Witness ==
    /\ processed # <<>>
    /\ last.op = "hit"
    /\ KeyOf[last.cmd] \in racy
    /\ Stale(last.cmd)
    /\ signals = <<>>

\* C23: the invalidation path is never blocked. In every reachable state,
\* whatever number of reads is awaiting fn, invalidate(K) for each key K,
\* invalidate(null) and clear() can run, and each completes in one step: the
\* call is processed and its event emitted (invalidate), both maps are empty
\* (clear), and no read in flight has moved.
C23_InvalidationNeverBlocked ==
    /\ \A key \in {Null} \cup {Buf(k) : k \in KeyNames} :
           ENABLED ( /\ invalidate(key)
                     /\ processed' = Append(processed, key)
                     /\ Len(events') = Len(events) + 1
                     /\ \A c \in 1..MaxReads : calls'[c].st = calls[c].st )
    /\ ENABLED ( /\ clear
                 /\ cache' = EmptyMap
                 /\ keyToCacheKeys' = EmptyMap
                 /\ calls' = calls )

\* Every read of the run is awaiting fn and an invalidation has been processed
\* meanwhile.
C23_Witness ==
    /\ Cardinality(Suspended) = MaxReads
    /\ processed # <<>>
    /\ \E c \in Suspended : calls[c].st = "awaiting"

\* C24 as stated: no forward-map entry is mutated in place; while a cacheKey
\* stays in the forward map, no step changes the value stored under it.
C24_NoEntryReplaced ==
    [][\A cacheKey \in DOMAIN cache \cap DOMAIN cache' :
           cache'[cacheKey] = cache[cacheKey]]_vars

\* C24 as amended: while a cacheKey stays in the forward map, the value stored
\* under it changes only in a step in which a handleCache invocation with the
\* same redisArgs, a miss that started before the entry was inserted, stores
\* its own result over it; invalidate, clear, onError, onClose and a hit never
\* change a value that stays.
C24_ReplacedOnlyByConcurrentMiss ==
    [][\A cacheKey \in DOMAIN cache \cap DOMAIN cache' :
           cache'[cacheKey] # cache[cacheKey]
              => /\ StoreStep
                 /\ KeyOf[last'.cmd] = cacheKey
                 /\ cache'[cacheKey] = ValueFor(last'.cmd, last'.out)
                 /\ \E c \in 1..MaxReads :
                        /\ calls[c].st = "replied"
                        /\ calls'[c].st = "done"
                        /\ calls[c].cmd = last'.cmd ]_vars

\* Two misses on one cacheKey have both stored their result; the second one
\* read the store after a write and replaced the value of the first.
C24_Witness ==
    /\ enableStat
    /\ stats.missCount = 2
    /\ stats.loadSuccessCount = 2
    /\ stats.evictionCount = 0
    /\ size = 1
    /\ nWrites = 1
    /\ last.op = "miss"
    /\ ~Stale(last.cmd)
    /\ \E k \in srcKeys[KeyOf[last.cmd]] : store[k] > 0
    /\ signals # <<>>

\* C25: reads in flight are not deduplicated. Every handleCache invocation
\* that is awaiting fn has invoked fn itself, exactly once, also when another
\* invocation with the same redisArgs is awaiting fn (both are misses, both
\* counted in missCount); every miss that returns a value has inserted its
\* own result under the cacheKey; and the forward map holds one entry per
\* cacheKey, so size() counts a cacheKey stored twice once.
C25_NoDeduplication ==
    /\ \A c \in Suspended : calls[c].fnCalls = 1
    /\ enableStat =>
           stats.missCount
              = stats.loadSuccessCount + stats.loadFailureCount + Cardinality(Suspended)
    /\ (last.op = "miss" /\ last.ret.kind = "value")
           => /\ last.fnCalls = 1
              /\ has(cache, KeyOf[last.cmd])
              /\ cache[KeyOf[last.cmd]] = ValueFor(last.cmd, last.out)
    /\ size = Cardinality({cacheKey \in CacheKeys : has(cache, cacheKey)})

\* A second read with the same redisArgs has started while the first is still
\* awaiting fn: both are misses, each has invoked fn, nothing is cached yet.
C25_Witness ==
    /\ enableStat
    /\ Cardinality(Suspended) = 2
    /\ calls[1].cmd.redisArgs = calls[2].cmd.redisArgs
    /\ calls[1].st = "awaiting"
    /\ calls[1].fnCalls + calls[2].fnCalls = 2
    /\ stats.missCount = 2
    /\ stats.hitCount = 0
    /\ size = 0

\* C26: within one invalidate call the removal from both maps and the update
\* of evictionCount happen before the 'invalidate' event is emitted: what a
\* listener reads from size() and stats() while handling the event is the
\* state the call leaves.
C26_ListenerSeesPostState ==
    last.op = "invalidate"
       => /\ last.seen.size = size
          /\ last.seen.stats = statsReturn.v

\* An invalidation has just removed an entry and its listener saw the map
\* without it and the eviction counted.
C26_Witness ==
    /\ last.op = "invalidate"
    /\ enableStat
    /\ stats.evictionCount = 1
    /\ stats.loadSuccessCount = 2
    /\ last.seen.size = 1
    /\ last.seen.stats.evictionCount = 1

\* The read whose parser.keys is empty, and its cacheKey.
Keyless == CHOOSE cmd \in EdgeCommands : cmd.keys = <<>>

\* C27: a read whose parser.keys is empty does not fail. Its result is stored
\* under its cacheKey, which then is a member of no reverse-index set; while
\* the entry is present a read of the same redisArgs is a hit that does not
\* invoke fn; the entry leaves the forward map only by invalidate(null) or by
\* clear / onError / onClose, never by the invalidation of a specific key.
C27_KeylessReadIsCached ==
    /\ [](\A k \in DOMAIN keyToCacheKeys : KeyOf[Keyless] \notin keyToCacheKeys[k])
    /\ []((last.op = "miss" /\ last.cmd = Keyless)
             => (last.out.kind = "value"
                   => (/\ last.ret.kind = "value"
                       /\ has(cache, KeyOf[Keyless])
                       /\ srcKeys[KeyOf[Keyless]] = {})))
    /\ [][ /\ (ReadStartStep /\ StartedCmd = Keyless /\ has(cache, KeyOf[Keyless]))
                  => (last'.op = "hit" /\ last'.fnCalls = 0)
           /\ (has(cache, KeyOf[Keyless]) /\ ~has(cache', KeyOf[Keyless]))
                  => (ResetStep \/ (InvalidateStep /\ InvalidatedKey = Null)) ]_vars

\* The invalidation of a specific key has removed the entry of a read of that
\* key; the result of the keyless read, stored before, is still in the forward
\* map.
C27_Witness ==
    /\ enableStat
    /\ has(cache, KeyOf[Keyless])
    /\ processed # <<>>
    /\ processed[1] # Null
    /\ stats.evictionCount = 1
    /\ stats.loadSuccessCount = 2
    /\ size = 1

\* C28: a cache hit changes nothing except hitCount: the forward map, the
\* reverse index, the other five counters and the events emitted are as
\* before, and fn is not invoked. A miss changes neither map before fn has
\* settled: not in the step that starts it (which counts the miss and calls
\* fn) and not when the server answers.
C28_HitChangesOnlyHitCount ==
    [][ /\ ReadStartStep
              => /\ cache' = cache
                 /\ keyToCacheKeys' = keyToCacheKeys
                 /\ events' = events
                 /\ IF last'.op = "hit"
                    THEN /\ stats' = [stats EXCEPT !.hitCount = @ + One]
                         /\ last'.fnCalls = 0
                         /\ calls'[nStarted'].fnCalls = 0
                         /\ tracked' = tracked
                    ELSE /\ stats' = [stats EXCEPT !.missCount = @ + One]
                         /\ calls'[nStarted'].fnCalls = 1
        /\ \A c \in 1..MaxReads :
              (calls[c].st = "awaiting" /\ calls'[c].st = "replied")
                 => /\ cache' = cache
                    /\ keyToCacheKeys' = keyToCacheKeys
                    /\ stats' = stats
                    /\ events' = events ]_vars

\* A read has just been served as a hit, after the one miss that stored the
\* entry: one hit, one miss, one load, nothing evicted or emitted.
C28_Witness ==
    /\ last.op = "hit"
    /\ enableStat
    /\ stats.hitCount = 1
    /\ stats.missCount = 1
    /\ stats.loadSuccessCount = 1
    /\ stats.loadFailureCount = 0
    /\ stats.evictionCount = 0
    /\ events = <<>>
    /\ size = 1

\* C29: with statistics enabled loadSuccessCount equals the number of inserts
\* performed by handleCache: the counter goes up only in a step in which a
\* read stores its transformed reply and returns it, also when transformReply
\* fails after fn succeeded (nothing is cached and the caller gets the error).
C29_LoadSuccessCountsInserts ==
    [][stats'.loadSuccessCount # stats.loadSuccessCount
          => /\ stats'.loadSuccessCount = stats.loadSuccessCount + 1
             /\ StoreStep
             /\ has(cache', KeyOf[last'.cmd])]_vars

\* C30: the reverse index never holds an empty set: every key present in
\* keyToCacheKeys maps to a set with at least one member.
C30_NoEmptyIndexSet ==
    \A k \in DOMAIN keyToCacheKeys : keyToCacheKeys[k] # {}

\* An invalidation has deleted the index entry of one key of a two-key read;
\* the entry of the other key is still there, with its member.
C30_Witness ==
    /\ processed # <<>>
    /\ processed[1] # Null
    /\ cache = EmptyMap
    /\ keyToCacheKeys # EmptyMap
    /\ toString(processed[1]) \notin DOMAIN keyToCacheKeys

C32_ResetsAreSilent ==
    /\ \A reset \in {"clear", "onError", "onClose"} :
          /\ ENABLED ( /\ CASE reset = "clear" -> clear
                            [] reset = "onError" -> onError
                            [] reset = "onClose" -> onClose
                       /\ cache' = EmptyMap
                       /\ keyToCacheKeys' = EmptyMap
                       /\ events' = events
                       /\ stats' = stats )
          /\ ~ENABLED ( /\ CASE reset = "clear" -> clear
                             [] reset = "onError" -> onError
                             [] reset = "onClose" -> onClose
                        /\ (events' # events \/ stats' # stats) )
    /\ ENABLED ( /\ invalidate(Null)
                 /\ cache' = EmptyMap
                 /\ keyToCacheKeys' = EmptyMap
                 /\ events' = Append(events, Null)
                 /\ stats' = [stats EXCEPT !.evictionCount = @ + One * size] )

\* One read has stored its result and the forward map is empty again with no
\* invalidation processed: a reset removed the entry, and no eviction is
\* counted and no event emitted.
C32_Witness ==
    /\ enableStat
    /\ nStarted = 1
    /\ stats.loadSuccessCount = 1
    /\ cache = EmptyMap
    /\ keyToCacheKeys = EmptyMap
    /\ processed = <<>>
    /\ events = <<>>
    /\ stats.evictionCount = 0

\* Every handleCache invocation is after the step where it was before it:
\* same position, same arguments, same reply.
ReadsUntouched ==
    \A c \in 1..MaxReads :
        /\ calls'[c].st = calls[c].st
        /\ calls'[c].cmd = calls[c].cmd
        /\ calls'[c].fnCalls = calls[c].fnCalls
        /\ calls'[c].out = calls[c].out

\* C33: a reset does not cancel reads in flight. In no reachable state can
\* clear, onError, onClose or invalidate(null) move or drop a handleCache
\* invocation that is awaiting fn; and whenever such an invocation continues
\* it inserts its result and the reverse-index membership of each of its
\* keys, so that size() is at least 1 again without a new read having started.
C33_ResetKeepsReadsInFlight ==
    /\ [](/\ ~ENABLED (clear /\ ~ReadsUntouched)
          /\ ~ENABLED (onError /\ ~ReadsUntouched)
          /\ ~ENABLED (onClose /\ ~ReadsUntouched)
          /\ ~ENABLED (invalidate(Null) /\ ~ReadsUntouched))
    /\ [][\A c \in 1..MaxReads :
              (calls[c].st = "replied" /\ calls'[c].st = "done")
                 => LET cacheKey == KeyOf[calls[c].cmd]
                    IN /\ nStarted' = nStarted
                       /\ has(cache', cacheKey)
                       /\ \A k \in Range(calls[c].cmd.keys) :
                             /\ toString(k) \in DOMAIN keyToCacheKeys'
                             /\ cacheKey \in keyToCacheKeys'[toString(k)]
                       /\ Cardinality(DOMAIN cache') >= 1]_vars

\* The only read of the run had its reply when invalidate(null) was processed
\* on the empty cache; it has continued since, and size() is 1.
C33_Witness ==
    /\ enableStat
    /\ nStarted = 1
    /\ processed = <<Null>>
    /\ stats.evictionCount = 0
    /\ last.op = "miss"
    /\ KeyOf[last.cmd] \in racy
    /\ size = 1

\* C34: with statistics enabled, in every reachable state loadSuccessCount +
\* loadFailureCount is at most missCount; the difference is the number of
\* misses that are still awaiting fn, and with no read in flight the two
\* sides are equal.
C34_LoadsNeverExceedMisses ==
    enableStat =>
       /\ stats.loadSuccessCount + stats.loadFailureCount <= stats.missCount
       /\ stats.missCount - (stats.loadSuccessCount + stats.loadFailureCount)
             = Cardinality(Suspended)
       /\ (\A c \in 1..MaxReads : ~InFlight(c))
             => stats.loadSuccessCount + stats.loadFailureCount = stats.missCount

\* Two misses: the fn of one has rejected, the other is still awaiting fn.
C34_Witness ==
    /\ enableStat
    /\ stats.missCount = 2
    /\ stats.loadFailureCount = 1
    /\ stats.loadSuccessCount = 0
    /\ Cardinality(Suspended) = 1

\* C35: statistics are purely observational. A cache built with enableStat
\* false and given the same reads, fn outcomes, invalidations and resets as
\* this cache (built with enableStat true or false) has, after every step, the
\* same forward map and the same reverse index, has emitted the same events,
\* and its handleCache invocations return the same values and errors.
C35_StatsAreObservational ==
    /\ twin.cache = cache
    /\ twin.keyToCacheKeys = keyToCacheKeys
    /\ twin.events = events
    /\ twin.ret = last.ret

\* This cache counts (a hit, a miss, a load, an eviction, load time) and has
\* emitted an event; the second cache has gone through the same calls.
C35_Witness ==
    /\ enableStat
    /\ stats.hitCount = 1
    /\ stats.missCount = 1
    /\ stats.loadSuccessCount = 1
    /\ stats.totalLoadTime > 0
    /\ stats.evictionCount = 1
    /\ twin.events = events
    /\ events # <<>>
    /\ twin.cache = EmptyMap

\* C36: every handleCache invocation eventually settles, exactly once, with a
\* value or an error, provided its fn settles: an invocation that is awaiting
\* fn is eventually done, whatever invalidations, resets and other reads
\* happen meanwhile; the step that ends it hands the caller a value or an
\* error; and an invocation that is done stays done.
C36_EveryReadSettlesOnce ==
    /\ \A c \in 1..MaxReads : InFlight(c) ~> (calls[c].st = "done")
    /\ [][\A c \in 1..MaxReads :
              /\ (InFlight(c) /\ calls'[c].st = "done")
                    => /\ last'.op = "miss"
                       /\ last'.cmd = calls[c].cmd
                       /\ last'.ret.kind \in {"value", "error"}
              /\ calls[c].st = "done" => calls'[c] = calls[c]]_vars

\* Every read of the run has settled, the last one as a miss, although a reset
\* or an invalidation ran while reads were in flight.
C36_Witness ==
    /\ nStarted = MaxReads
    /\ \A c \in 1..MaxReads : calls[c].st = "done"
    /\ last.op = "miss"
    /\ processed # <<>>
    /\ KeyOf[last.cmd] \in racy

====
